---------------------------- MODULE Spec2Model ----------------------------
(***************************************************************************)
(* A model of the flowerpower helper scripts:                              *)
(*   create_pipeline.py  (template scaffolder and its front end)           *)
(*   list_pipelines.py   (filesystem listing and its front end)            *)
(*   run_pipeline.py     (flag translation, options assembly, front end)   *)
(*   init_project.py     (install + init front end)                        *)
(*                                                                         *)
(* Text (names, file names, paths, file contents, argv elements) is a      *)
(* sequence of strings: single characters where the code looks inside the  *)
(* text (names, extensions), longer literal chunks elsewhere.              *)
(* An optional value (Python's None or a value) is <<>> or <<v>>.          *)
(***************************************************************************)
EXTENDS Integers, Sequences, FiniteSets, TLC

VARIABLES
    dirs,            \* which of <root>/pipelines and <root>/conf/pipelines exist
    pipelinesFiles,  \* <root>/pipelines:      file name -> content
    configFiles,     \* <root>/conf/pipelines: file name -> content
    scaffolded,      \* history: the names create_pipeline_from_template returned for
    result,          \* outcome of the last library call (create / list)
    req,             \* the run request handed to the two run strategies
    cmd,             \* <<argv>> built by run_pipeline_cli for req, or <<>>
    kwargs,          \* <<options>> built by run_pipeline_api for req, or <<>>
    proc             \* outcome of the last front-end (main) invocation

vars ==
    <<dirs, pipelinesFiles, configFiles, scaffolded, result, req, cmd, kwargs, proc>>

fsVars == <<dirs, pipelinesFiles, configFiles, scaffolded>>

runVars == <<req, cmd, kwargs>>

-----------------------------------------------------------------------------
(* Bounds *)

\* the clock readings datetime.now() can return: 1..MaxClock
MaxClock == 2

\* files that may already lie in each directory of an arbitrary project root
MaxInitFiles == 1

-----------------------------------------------------------------------------
(* Text helpers *)

None == <<>>

Some(v) == <<v>>

IsNone(o) == Len(o) = 0

\* code points of the characters the model's names are made of
Ord(c) ==
    CASE c = "-" -> 45
      [] c = "." -> 46
      [] c = "_" -> 95
      [] c = "a" -> 97
      [] c = "b" -> 98
      [] c = "l" -> 108
      [] c = "m" -> 109
      [] c = "p" -> 112
      [] c = "t" -> 116
      [] c = "x" -> 120
      [] c = "y" -> 121
      [] OTHER -> 0

RECURSIVE StrLess(_, _)
\* Python's < on str: lexicographic by code point, a proper prefix is smaller
StrLess(s, t) ==
    IF Len(t) = 0 THEN FALSE
    ELSE IF Len(s) = 0 THEN TRUE
    ELSE IF Ord(Head(s)) # Ord(Head(t)) THEN Ord(Head(s)) < Ord(Head(t))
    ELSE StrLess(Tail(s), Tail(t))

StartsWith(s, pre) ==
    Len(s) >= Len(pre) /\ SubSeq(s, 1, Len(pre)) = pre

EndsWith(s, suf) ==
    Len(s) >= Len(suf) /\ SubSeq(s, Len(s) - Len(suf) + 1, Len(s)) = suf

\* the pipeline names the library functions are called with
PipelineNames == { <<"a">>, <<"_", "a">>, <<"a", "_", "b">> }

PY == <<".", "p", "y">>

YML == <<".", "y", "m", "l">>

\* f"{name}.py"
ModuleFile(name) == name \o PY

\* f"{name}.yml"
ConfigFile(name) == name \o YML

PipelinesDir == <<"pipelines", "/">>

ConfigDir == <<"conf", "/", "pipelines", "/">>

\* pipelines_dir / f"{name}.py"
ModulePath(name) == PipelinesDir \o ModuleFile(name)

\* config_dir / f"{name}.yml"
ConfigPath(name) == ConfigDir \o ConfigFile(name)

-----------------------------------------------------------------------------
(* Template Store *)

\* datetime.now().strftime("%Y-%m-%d %H:%M:%S") at clock reading now
Strftime(now) == <<"2026-11-06 04:40:0", ToString(now)>>

\* PIPELINE_TEMPLATE.format(name=name, date=date)
RenderModule(name, date) ==
    <<"# FlowerPower pipeline ">> \o name
    \o <<"# Created on ">> \o date
    \o <<"imports; # Load pipeline parameters from conf/pipelines/">> \o name
    \o <<".yml PARAMS = Config.load(Path(__file__).parents[1], pipeline_name=">>
    \o name
    \o <<").pipeline.h_params; load_data; validate_data; process_data; final_output">>

\* CONFIG_TEMPLATE.format(name=name)
RenderConfig(name) ==
    <<"# Pipeline configuration for ">> \o name
    \o <<"params: input_config; run: final_vars: [final_output]; ",
         "executor: synchronous; log_level: INFO">>

\* content that did not come from the templates
OtherContent == <<"hand-written">>


-----------------------------------------------------------------------------
(* Project root *)

Exists(files, fname) == fname \in DOMAIN files

\* a write that appends to a file that is already there
WriteTextAppend(files, fname, content) ==
    [f \in DOMAIN files \cup {fname} |->
        IF f # fname THEN files[f]
        ELSE IF f \in DOMAIN files THEN files[f] \o content ELSE content]

\* Path.write_text: create or truncate, then write
WriteText(files, fname, content) ==
    [f \in DOMAIN files \cup {fname} |-> IF f = fname THEN content ELSE files[f]]

\* Path.mkdir(parents=True, exist_ok=True)
Mkdir(ds, d) == ds \cup {d}

\* prior: history, whether the two paths existed when the call began
\* stage: the statement at which an OSError was raised, "none" otherwise
NoResult ==
    [op |-> "none", name |-> <<>>, overwrite |-> FALSE, now |-> 0,
     prior |-> [module |-> FALSE, config |-> FALSE], stage |-> "none",
     status |-> "none", message |-> <<>>, ret |-> <<>>, listing |-> <<>>]

NoReq ==
    [name |-> <<>>, base_dir |-> None, inputs |-> None, final_vars |-> None,
     executor |-> None, max_workers |-> None, max_retries |-> None,
     retry_delay |-> None, log_level |-> None, run_config |-> None]

NoProc ==
    [tool |-> "none", argName |-> <<>>, inputsArg |-> None,
     finalVarsArg |-> None, name |-> <<>>, dispatched |-> FALSE,
     calls |-> <<>>, exc |-> "none", report |-> "none", message |-> <<>>,
     warned |-> FALSE, exit |-> 0]

-----------------------------------------------------------------------------
(* Filesystem Scaffolder: create_pipeline_from_template *)

\* a check that looks at the module path only
CheckExistingModuleOnly(name, overwrite) ==
    IF ~overwrite /\ Exists(pipelinesFiles, ModuleFile(name))
    THEN Some(<<"Pipeline module already exists: ">> \o ModulePath(name))
    ELSE None

\* a check that looks at the config path only
CheckExistingConfigOnly(name, overwrite) ==
    IF ~overwrite /\ Exists(configFiles, ConfigFile(name))
    THEN Some(<<"Pipeline config already exists: ">> \o ConfigPath(name))
    ELSE None

\* the "Check existing" block: the FileExistsError raised, or None
CheckExisting(name, overwrite) ==
    IF ~overwrite /\ Exists(pipelinesFiles, ModuleFile(name))
    THEN Some(<<"Pipeline module already exists: ">> \o ModulePath(name))
    ELSE IF ~overwrite /\ Exists(configFiles, ConfigFile(name))
    THEN Some(<<"Pipeline config already exists: ">> \o ConfigPath(name))
    ELSE None

\* a scaffolder that creates the directories before it checks
CreateMkdirFirst(name, overwrite, now) ==
    LET err == CheckExisting(name, overwrite)
        prior == [module |-> Exists(pipelinesFiles, ModuleFile(name)),
                  config |-> Exists(configFiles, ConfigFile(name))]
    IN
    /\ dirs' = Mkdir(Mkdir(dirs, "pipelines"), "conf/pipelines")
    /\ IF ~IsNone(err)
       THEN /\ result' = [NoResult EXCEPT !.op = "create", !.name = name,
                              !.overwrite = overwrite, !.now = now,
                              !.prior = prior,
                              !.status = "FileExistsError", !.message = err[1]]
            /\ UNCHANGED <<pipelinesFiles, configFiles, scaffolded>>
       ELSE /\ pipelinesFiles' = WriteText(pipelinesFiles, ModuleFile(name),
                                           RenderModule(name, Strftime(now)))
            /\ configFiles' = WriteText(configFiles, ConfigFile(name),
                                        RenderConfig(name))
            /\ scaffolded' = scaffolded \cup {name}
            /\ result' = [NoResult EXCEPT !.op = "create", !.name = name,
                              !.overwrite = overwrite, !.now = now,
                              !.prior = prior,
                              !.status = "ok",
                              !.ret = <<ModulePath(name), ConfigPath(name)>>]

CreatePipelineFromTemplate(name, overwrite, now) ==
    LET err == CheckExisting(name, overwrite)
        prior == [module |-> Exists(pipelinesFiles, ModuleFile(name)),
                  config |-> Exists(configFiles, ConfigFile(name))]
    IN
    IF ~IsNone(err)
    THEN /\ result' = [NoResult EXCEPT !.op = "create", !.name = name,
                           !.overwrite = overwrite, !.now = now,
                           !.prior = prior,
                           !.status = "FileExistsError", !.message = err[1]]
         /\ UNCHANGED fsVars
    ELSE /\ dirs' = Mkdir(Mkdir(dirs, "pipelines"), "conf/pipelines")
         /\ pipelinesFiles' = WriteText(pipelinesFiles, ModuleFile(name),
                                        RenderModule(name, Strftime(now)))
         /\ configFiles' = WriteText(configFiles, ConfigFile(name),
                                     RenderConfig(name))
         /\ scaffolded' = scaffolded \cup {name}
         /\ result' = [NoResult EXCEPT !.op = "create", !.name = name,
                           !.overwrite = overwrite, !.now = now,
                           !.prior = prior,
                           !.status = "ok",
                           !.ret = <<ModulePath(name), ConfigPath(name)>>]

Create ==
    /\ \E name \in PipelineNames, overwrite \in BOOLEAN, now \in 1..MaxClock :
           CreatePipelineFromTemplate(name, overwrite, now)
    /\ UNCHANGED <<runVars, proc>>

\* the statements of the "Write files" block at which the platform may raise
\* OSError: opening a file for writing, or writing to the file just opened
ModuleStages == {"module_open", "module_write"}

ConfigStages == {"config_open", "config_write"}

\* Path.write_text that raises: open(mode="w") either fails and leaves the
\* directory as it was, or creates / truncates the file and the write fails
FailedWriteText(files, fname, stage) ==
    IF stage \in {"module_write", "config_write"}
    THEN WriteText(files, fname, <<>>)
    ELSE files

\* create_pipeline_from_template when a write raises OSError at stage: the
\* statements before it have run, the exception propagates, nothing is undone
CreatePipelineFromTemplateOSError(name, overwrite, now, stage) ==
    LET err == CheckExisting(name, overwrite)
        prior == [module |-> Exists(pipelinesFiles, ModuleFile(name)),
                  config |-> Exists(configFiles, ConfigFile(name))]
    IN
    IF ~IsNone(err)
    THEN /\ result' = [NoResult EXCEPT !.op = "create", !.name = name,
                           !.overwrite = overwrite, !.now = now,
                           !.prior = prior,
                           !.status = "FileExistsError", !.message = err[1]]
         /\ UNCHANGED fsVars
    ELSE /\ dirs' = Mkdir(Mkdir(dirs, "pipelines"), "conf/pipelines")
         /\ pipelinesFiles' =
                IF stage \in ModuleStages
                THEN FailedWriteText(pipelinesFiles, ModuleFile(name), stage)
                ELSE WriteText(pipelinesFiles, ModuleFile(name),
                               RenderModule(name, Strftime(now)))
         /\ configFiles' =
                IF stage \in ModuleStages
                THEN configFiles
                ELSE FailedWriteText(configFiles, ConfigFile(name), stage)
         /\ scaffolded' = scaffolded
         /\ result' = [NoResult EXCEPT !.op = "create", !.name = name,
                           !.overwrite = overwrite, !.now = now,
                           !.prior = prior, !.stage = stage,
                           !.status = "OSError"]

CreateOSError ==
    /\ \E name \in PipelineNames, overwrite \in BOOLEAN, now \in 1..MaxClock,
          stage \in ModuleStages \cup ConfigStages :
           CreatePipelineFromTemplateOSError(name, overwrite, now, stage)
    /\ UNCHANGED <<runVars, proc>>

-----------------------------------------------------------------------------
(* Filesystem listing: list_pipelines_filesystem *)

\* pipelines_dir.glob("*.py") keeps a file name
GlobPy(fname) == EndsWith(fname, PY)

\* the position of the last "." of a file name, 0 when there is none
LastDot(fname) ==
    IF \E i \in 1..Len(fname) : fname[i] = "."
    THEN CHOOSE i \in 1..Len(fname) :
             /\ fname[i] = "."
             /\ \A j \in (i+1)..Len(fname) : fname[j] # "."
    ELSE 0

\* PurePath.stem: the name without its last suffix; a leading or trailing dot
\* starts no suffix
Stem(fname) ==
    LET i == LastDot(fname) IN
    IF 1 < i /\ i < Len(fname) THEN SubSeq(fname, 1, i - 1) ELSE fname

\* a loop that skips nothing
IsPrivateNever(fname) == FALSE

\* the loop's "continue" test
IsPrivate(fname) == StartsWith(fname, <<"_">>)

\* an entry that does not look for the config file
PipelineInfoNoLookup(fname) ==
    [name |-> Stem(fname),
     module |-> PipelinesDir \o fname,
     config |-> Some(ConfigDir \o ConfigFile(Stem(fname))),
     has_config |-> TRUE]

\* the dict appended for one module file
PipelineInfo(fname) ==
    LET name == Stem(fname)
        has  == Exists(configFiles, ConfigFile(name)) IN
    [name |-> name,
     module |-> PipelinesDir \o fname,
     config |-> IF has THEN Some(ConfigDir \o ConfigFile(name)) ELSE None,
     has_config |-> has]

RECURSIVE SortedByName(_)
\* sorted(pipelines, key=lambda p: p["name"])
SortedByName(infos) ==
    IF infos = {} THEN <<>>
    ELSE LET first == CHOOSE p \in infos :
                          \A q \in infos : ~StrLess(q.name, p.name)
         IN <<first>> \o SortedByName(infos \ {first})

ListPipelinesFilesystem ==
    IF "pipelines" \notin dirs THEN <<>>
    ELSE SortedByName({ PipelineInfo(f) :
                          f \in { g \in DOMAIN pipelinesFiles :
                                    GlobPy(g) /\ ~IsPrivate(g) } })

List ==
    /\ result' = [NoResult EXCEPT !.op = "list", !.status = "ok",
                                  !.listing = ListPipelinesFilesystem]
    /\ UNCHANGED <<fsVars, runVars, proc>>

-----------------------------------------------------------------------------
(* Specifications of the scaffolder and the listing *)

\* file names that may lie in <root>/pipelines before any call
InitModuleFiles ==
    { ModuleFile(n) : n \in PipelineNames } \cup { PY, <<"a", ".", "t", "x", "t">> }

InitConfigFiles == { ConfigFile(n) : n \in PipelineNames }

SmallSubsets(S) == { T \in SUBSET S : Cardinality(T) <= MaxInitFiles }

\* any project root: each directory present or not, a few files in it
InitAnyRoot ==
    /\ dirs \in SUBSET {"pipelines", "conf/pipelines"}
    /\ \E S \in SmallSubsets(InitModuleFiles) :
           /\ S # {} => "pipelines" \in dirs
           /\ pipelinesFiles = [f \in S |-> OtherContent]
    /\ \E S \in SmallSubsets(InitConfigFiles) :
           /\ S # {} => "conf/pipelines" \in dirs
           /\ configFiles = [f \in S |-> OtherContent]

InitRest ==
    /\ scaffolded = {}
    /\ result = NoResult
    /\ req = NoReq
    /\ cmd = None
    /\ kwargs = None
    /\ proc = NoProc

\* an empty project root
InitEmptyRoot ==
    /\ dirs = {}
    /\ pipelinesFiles = <<>>
    /\ configFiles = <<>>

Init == InitAnyRoot /\ InitRest

Next == Create \/ List

Spec == Init /\ [][Next]_vars

InitScaffold == InitEmptyRoot /\ InitRest

SpecScaffold == InitScaffold /\ [][Next]_vars

\* the scaffolder and the listing on a platform whose writes may fail,
\* started in an empty project root
NextOSError == Create \/ CreateOSError \/ List

SpecOSError == InitScaffold /\ [][NextOSError]_vars

-----------------------------------------------------------------------------
(* Properties of the scaffolder and the listing *)

IsCreate(r) == r.op = "create"

Conflict(r) == r.op = "create" /\ r.status = "FileExistsError"

ModuleConflictMessage(n) == <<"Pipeline module already exists: ">> \o ModulePath(n)

ConfigConflictMessage(n) == <<"Pipeline config already exists: ">> \o ConfigPath(n)

\* C1: a call with overwrite = false made while the module path or the config
\* path exists raises FileExistsError, and the message names a path that
\* existed; a call with overwrite = false that follows a successful call for
\* the same name raises FileExistsError.
C1_ConflictWhenExists ==
    [][ /\ ( /\ IsCreate(result') /\ ~result'.overwrite
             /\ \/ Exists(pipelinesFiles, ModuleFile(result'.name))
                \/ Exists(configFiles, ConfigFile(result'.name)) )
           => /\ Conflict(result')
              /\ \/ /\ result'.message = ModuleConflictMessage(result'.name)
                    /\ Exists(pipelinesFiles, ModuleFile(result'.name))
                 \/ /\ result'.message = ConfigConflictMessage(result'.name)
                    /\ Exists(configFiles, ConfigFile(result'.name))
        /\ ( /\ IsCreate(result) /\ result.status = "ok"
             /\ IsCreate(result') /\ ~result'.overwrite
             /\ result'.name = result.name )
           => Conflict(result')
      ]_vars

\* C1 witness: a call was refused because of the config file alone
C1_Witness ==
    /\ Conflict(result)
    /\ result.message = ConfigConflictMessage(result.name)
    /\ ~Exists(pipelinesFiles, ModuleFile(result.name))

\* C2: a call with overwrite = true returns normally, whatever was in the
\* project root, and then the module file holds exactly the module template
\* rendered for the name and the time of the call and the config file holds
\* exactly the rendered config template.
C2_OverwriteReplaces ==
    (IsCreate(result) /\ result.overwrite)
    => /\ result.status = "ok"
       /\ result.ret = <<ModulePath(result.name), ConfigPath(result.name)>>
       /\ {"pipelines", "conf/pipelines"} \subseteq dirs
       /\ Exists(pipelinesFiles, ModuleFile(result.name))
       /\ pipelinesFiles[ModuleFile(result.name)]
              = RenderModule(result.name, Strftime(result.now))
       /\ Exists(configFiles, ConfigFile(result.name))
       /\ configFiles[ConfigFile(result.name)] = RenderConfig(result.name)

\* C2 witness: an overwriting call has returned that found both files in
\* place, while a hand-written file of another pipeline is still there
C2_Witness ==
    /\ IsCreate(result) /\ result.overwrite /\ result.status = "ok"
    /\ result.prior.module /\ result.prior.config
    /\ \E f \in DOMAIN pipelinesFiles : pipelinesFiles[f] = OtherContent

EntryNames(listing) == { listing[i].name : i \in 1..Len(listing) }

NoDuplicates(listing) ==
    \A i, j \in 1..Len(listing) : listing[i].name = listing[j].name => i = j

\* C3 as stated: after successful scaffolding calls on an empty root the
\* listing has exactly one entry per scaffolded name, each with a config.
C3_Original ==
    result.op = "list"
    => /\ EntryNames(result.listing) = scaffolded
       /\ NoDuplicates(result.listing)
       /\ \A i \in 1..Len(result.listing) : result.listing[i].has_config

\* the names the listing shows: those that are not private
Listable(n) == n[1] # "_"

\* C3 amended: after successful scaffolding calls (non-empty names) on an
\* empty root the listing has exactly one entry, with has_config = true, per
\* scaffolded name that does not begin with "_", and never a duplicate; a
\* scaffolded name that begins with "_" has no entry.
C3_OneEntryPerListableName ==
    result.op = "list"
    => LET L == result.listing IN
       /\ NoDuplicates(L)
       /\ \A n \in scaffolded :
              IF Listable(n)
              THEN \E i \in 1..Len(L) : L[i].name = n /\ L[i].has_config
              ELSE n \notin EntryNames(L)
       /\ \A i \in 1..Len(L) : L[i].name \in scaffolded /\ Listable(L[i].name)

\* C3 witness: two listable names and a private one were scaffolded, one of
\* them twice, and the listing shows two entries
C3_Witness ==
    /\ result.op = "list"
    /\ Len(result.listing) = 2
    /\ {<<"a">>, <<"_", "a">>, <<"a", "_", "b">>} = scaffolded

\* C4: the listing has an entry for a module file (a *.py file of
\* <root>/pipelines) exactly when the file name does not begin with "_";
\* every entry stands for such a file, and its has_config tells whether
\* <root>/conf/pipelines/<name>.yml exists.
C4_ListingMatchesRoot ==
    result.op = "list"
    => LET L == result.listing IN
       /\ \A f \in DOMAIN pipelinesFiles :
              EndsWith(f, PY) =>
                  ( (\E i \in 1..Len(L) : L[i].module = PipelinesDir \o f)
                    <=> f[1] # "_" )
       /\ \A i \in 1..Len(L) :
              /\ \E f \in DOMAIN pipelinesFiles :
                     /\ EndsWith(f, PY)
                     /\ L[i].module = PipelinesDir \o f
                     /\ L[i].name \o PY = f \/ f = PY
              /\ L[i].has_config <=> (L[i].name \o YML) \in DOMAIN configFiles
              /\ L[i].has_config <=> ~IsNone(L[i].config)
       /\ Len(L) = Cardinality({ f \in DOMAIN pipelinesFiles :
                                   EndsWith(f, PY) /\ f[1] # "_" })

\* C4 witness: a listing of a root that holds a module without config, a
\* private module and a config without module
C4_Witness ==
    /\ result.op = "list"
    /\ \E i \in 1..Len(result.listing) : ~result.listing[i].has_config
    /\ \E f \in DOMAIN pipelinesFiles : f[1] = "_"
    /\ \E c \in DOMAIN configFiles :
           \A f \in DOMAIN pipelinesFiles : Stem(f) \o YML # c

-----------------------------------------------------------------------------
(* JSON text *)

\* a decoded JSON object: key/value pairs in insertion order
JObj(pairs) == [kind |-> "object", items |-> pairs]

\* a decoded JSON array of strings, each item a 1-tuple
JArr(strs) == [kind |-> "array", items |-> strs]

Quoted(str) == <<"\"", str, "\"">>

\* one member of an object, one element of an array
DumpItem(kind, item) ==
    IF kind = "object"
    THEN Quoted(item[1]) \o <<": ">> \o Quoted(item[2])
    ELSE Quoted(item[1])

RECURSIVE DumpItems(_, _)
DumpItems(kind, items) ==
    IF Len(items) = 0 THEN <<>>
    ELSE IF Len(items) = 1 THEN DumpItem(kind, items[1])
    ELSE DumpItem(kind, items[1]) \o <<", ">> \o DumpItems(kind, Tail(items))

\* json.dumps with the default separators
JsonDumps(v) ==
    IF v.kind = "object"
    THEN <<"{">> \o DumpItems(v.kind, v.items) \o <<"}">>
    ELSE <<"[">> \o DumpItems(v.kind, v.items) \o <<"]">>

-----------------------------------------------------------------------------
(* Run strategies: run_pipeline_cli and run_pipeline_api *)

\* truthiness of an optional dict or list: not None and not empty
TruthyJson(o) == ~IsNone(o) /\ Len(o[1].items) > 0

\* truthiness of an optional str: not None and not ""
TruthyStr(o) == ~IsNone(o) /\ o[1] # ""

\* a test that takes 0 for a value like any other
IntNotNone(o) == ~IsNone(o)

\* truthiness of an optional int: not None and not 0
TruthyInt(o) == ~IsNone(o) /\ o[1] # 0

\* truthiness of an optional Path: every Path is true
TruthyPath(o) == ~IsNone(o)

\* "is not None"
NotNone(o) == ~IsNone(o)

\* str(int)
IntStr(n) == <<ToString(n)>>

\* str(float) of a whole number of seconds
FloatStr(n) == <<ToString(n), ".0">>

\* cmd.extend([flag, value]) under its if
Extend(argv, cond, flag, value) ==
    IF cond THEN argv \o << <<flag>>, value >> ELSE argv

\* the argv handed to subprocess.run
RunPipelineCli(r) ==
    LET c0 == << <<"flowerpower">>, <<"pipeline">>, <<"run">>, r.name >>
        c1 == Extend(c0, TruthyPath(r.base_dir), "--base-dir",
                     IF IsNone(r.base_dir) THEN <<>> ELSE <<r.base_dir[1]>>)
        c2 == Extend(c1, TruthyJson(r.inputs), "--inputs",
                     IF IsNone(r.inputs) THEN <<>> ELSE JsonDumps(r.inputs[1]))
        c3 == Extend(c2, TruthyJson(r.final_vars), "--final-vars",
                     IF IsNone(r.final_vars) THEN <<>>
                     ELSE JsonDumps(r.final_vars[1]))
        c4 == Extend(c3, TruthyStr(r.executor), "--executor",
                     IF IsNone(r.executor) THEN <<>> ELSE <<r.executor[1]>>)
        c5 == Extend(c4, TruthyInt(r.max_workers), "--executor-max-workers",
                     IF IsNone(r.max_workers) THEN <<>>
                     ELSE IntStr(r.max_workers[1]))
        c6 == Extend(c5, NotNone(r.max_retries), "--max-retries",
                     IF IsNone(r.max_retries) THEN <<>>
                     ELSE IntStr(r.max_retries[1]))
        c7 == Extend(c6, NotNone(r.retry_delay), "--retry-delay",
                     IF IsNone(r.retry_delay) THEN <<>>
                     ELSE FloatStr(r.retry_delay[1]))
        c8 == Extend(c7, TruthyStr(r.log_level), "--log-level",
                     IF IsNone(r.log_level) THEN <<>> ELSE <<r.log_level[1]>>)
        c9 == Extend(c8, TruthyStr(r.run_config), "--run-config",
                     IF IsNone(r.run_config) THEN <<>> ELSE <<r.run_config[1]>>)
    IN c9

\* kwargs["executor"]: {"type": executor} and max_workers when true
ExecutorConfig(r) ==
    IF TruthyStr(r.executor)
    THEN Some([type |-> r.executor[1],
               max_workers |-> IF TruthyInt(r.max_workers)
                               THEN r.max_workers ELSE None])
    ELSE None

\* kwargs["retry"]: the retry settings that are not None
RetryConfig(r) ==
    IF NotNone(r.max_retries) \/ NotNone(r.retry_delay)
    THEN Some([max_retries |-> r.max_retries, retry_delay |-> r.retry_delay])
    ELSE None

\* FlowerPowerProject.load(...) and the kwargs of project.run(name, **kwargs);
\* run_pipeline_api has no run_config parameter
RunPipelineApi(r) ==
    [load |-> IF TruthyPath(r.base_dir) THEN r.base_dir[1] ELSE ".",
     name |-> r.name,
     inputs |-> IF TruthyJson(r.inputs) THEN r.inputs ELSE None,
     final_vars |-> IF TruthyJson(r.final_vars) THEN r.final_vars ELSE None,
     executor |-> ExecutorConfig(r),
     retry |-> RetryConfig(r),
     log_level |-> IF TruthyStr(r.log_level) THEN r.log_level ELSE None]

\* the values the run front end can hand to a strategy
RunRequests ==
    [name : {<<"a">>},
     base_dir : {None, Some("proj")},
     inputs : {None, Some(JObj(<<>>)), Some(JObj(<< <<"key", "value">> >>))},
     final_vars : {None, Some(JArr(<<>>)),
                   Some(JArr(<< <<"output_a">>, <<"output_b">> >>))},
     executor : {None, Some("threadpool")},
     max_workers : {None, Some(0), Some(4)},
     max_retries : {None, Some(0), Some(3)},
     retry_delay : {None, Some(0), Some(1)},
     log_level : {None, Some("INFO")},
     run_config : {None, Some("rc.yml")}]

RunCli ==
    /\ cmd' = Some(RunPipelineCli(req))
    /\ UNCHANGED <<fsVars, result, req, kwargs, proc>>

RunApi ==
    /\ kwargs' = Some(RunPipelineApi(req))
    /\ UNCHANGED <<fsVars, result, req, cmd, proc>>

InitRun ==
    /\ InitEmptyRoot
    /\ scaffolded = {}
    /\ result = NoResult
    /\ req \in RunRequests
    /\ cmd = None
    /\ kwargs = None
    /\ proc = NoProc

NextRun == RunCli \/ RunApi

SpecRun == InitRun /\ [][NextRun]_vars

-----------------------------------------------------------------------------
(* Properties of the run strategies *)

\* the optional parameters of a run request and the flag of each
OptionalParams ==
    { <<"inputs", "--inputs">>, <<"final_vars", "--final-vars">>,
      <<"executor", "--executor">>, <<"max_workers", "--executor-max-workers">>,
      <<"max_retries", "--max-retries">>, <<"retry_delay", "--retry-delay">>,
      <<"log_level", "--log-level">>, <<"run_config", "--run-config">> }

FlagCount(argv, flag) ==
    Cardinality({ i \in 1..Len(argv) : argv[i] = <<flag>> })

\* the argv element that follows the flag
ValueAfter(argv, flag) ==
    argv[(CHOOSE i \in 1..Len(argv) : argv[i] = <<flag>>) + 1]

\* the text each modelled value is expected to travel as
ExpectedText(param, v) ==
    CASE param = "inputs" ->
             IF Len(v.items) = 0 THEN <<"{", "}">>
             ELSE <<"{", "\"", "key", "\"", ": ", "\"", "value", "\"", "}">>
      [] param = "final_vars" ->
             IF Len(v.items) = 0 THEN <<"[", "]">>
             ELSE <<"[", "\"", "output_a", "\"", ", ", "\"", "output_b", "\"", "]">>
      [] param \in {"max_workers", "max_retries"} -> <<ToString(v)>>
      [] param = "retry_delay" -> <<ToString(v), ".0">>
      [] OTHER -> <<v>>

\* C5 as stated: the flag of an optional parameter is in the command line
\* once when a value was supplied (an empty mapping, an empty sequence and 0
\* included) and not at all when none was.
C5_Original ==
    ~IsNone(cmd)
    => \A pf \in OptionalParams :
           FlagCount(cmd[1], pf[2]) = IF IsNone(req[pf[1]]) THEN 0 ELSE 1

\* what the command line treats as a supplied value
Supplied(param, o) ==
    /\ ~IsNone(o)
    /\ CASE param \in {"inputs", "final_vars"} -> Len(o[1].items) > 0
         [] param \in {"executor", "log_level", "run_config"} -> o[1] # ""
         [] param = "max_workers" -> o[1] # 0
         [] OTHER -> TRUE

\* C5 amended: the flag of an optional parameter is in the command line
\* exactly once, followed by the value's text (JSON text for inputs and
\* final_vars), when the parameter is supplied, and not at all otherwise,
\* where supplied means: a non-empty mapping or sequence for inputs and
\* final_vars, a non-empty string for executor, log_level and run_config, a
\* non-zero number for max_workers, and any value, 0 included, for
\* max_retries and retry_delay.
C5_FlagPerSuppliedParam ==
    ~IsNone(cmd)
    => /\ \A pf \in OptionalParams :
              IF Supplied(pf[1], req[pf[1]])
              THEN /\ FlagCount(cmd[1], pf[2]) = 1
                   /\ ValueAfter(cmd[1], pf[2])
                          = ExpectedText(pf[1], req[pf[1]][1])
              ELSE FlagCount(cmd[1], pf[2]) = 0
       /\ SubSeq(cmd[1], 1, 4)
              = << <<"flowerpower">>, <<"pipeline">>, <<"run">>, req.name >>

\* C5 witness: the command line of a request with inputs and final_vars, no
\* executor, max_retries = 0 and max_workers = 0
C5_Witness ==
    /\ ~IsNone(cmd)
    /\ TruthyJson(req.inputs) /\ TruthyJson(req.final_vars)
    /\ IsNone(req.executor)
    /\ req.max_retries = Some(0) /\ req.max_workers = Some(0)
    /\ FlagCount(cmd[1], "--inputs") = 1
    /\ FlagCount(cmd[1], "--executor") = 0

\* the parameter a flag stands for
ParamOf(flagText) ==
    CASE flagText = <<"--base-dir">> -> "base_dir"
      [] flagText = <<"--inputs">> -> "inputs"
      [] flagText = <<"--final-vars">> -> "final_vars"
      [] flagText = <<"--executor">> -> "executor"
      [] flagText = <<"--executor-max-workers">> -> "max_workers"
      [] flagText = <<"--max-retries">> -> "max_retries"
      [] flagText = <<"--retry-delay">> -> "retry_delay"
      [] flagText = <<"--log-level">> -> "log_level"
      [] flagText = <<"--run-config">> -> "run_config"
      [] OTHER -> "unknown"

\* the (parameter, value text) pairs a command line carries as flags
CliConveyed(argv) ==
    { <<ParamOf(argv[i]), argv[i + 1]>> :
          i \in { j \in 5..(Len(argv) - 1) : j % 2 = 1 } }

\* the (parameter, value text) pairs an in-process call carries
ApiConveyed(call) ==
    UNION {
      IF call.load = "." THEN {} ELSE { <<"base_dir", <<call.load>> >> },
      IF IsNone(call.inputs) THEN {}
      ELSE { <<"inputs", ExpectedText("inputs", call.inputs[1])>> },
      IF IsNone(call.final_vars) THEN {}
      ELSE { <<"final_vars", ExpectedText("final_vars", call.final_vars[1])>> },
      IF IsNone(call.executor) THEN {}
      ELSE { <<"executor", <<call.executor[1].type>> >> },
      IF IsNone(call.executor) \/ IsNone(call.executor[1].max_workers) THEN {}
      ELSE { <<"max_workers",
               ExpectedText("max_workers", call.executor[1].max_workers[1])>> },
      IF IsNone(call.retry) \/ IsNone(call.retry[1].max_retries) THEN {}
      ELSE { <<"max_retries",
               ExpectedText("max_retries", call.retry[1].max_retries[1])>> },
      IF IsNone(call.retry) \/ IsNone(call.retry[1].retry_delay) THEN {}
      ELSE { <<"retry_delay",
               ExpectedText("retry_delay", call.retry[1].retry_delay[1])>> },
      IF IsNone(call.log_level) THEN {}
      ELSE { <<"log_level", <<call.log_level[1]>> >> }
    }

\* C6: for one run request the flags of the command line and the options of
\* the in-process call carry the same (parameter, value) pairs.
C6_StrategiesEquivalent ==
    (~IsNone(cmd) /\ ~IsNone(kwargs))
    => CliConveyed(cmd[1]) = ApiConveyed(kwargs[1])

-----------------------------------------------------------------------------
(* Command-line front ends: the four main() functions *)

\* "-" in name
HasHyphen(name) == \E i \in 1..Len(name) : name[i] = "-"

\* name.replace("-", "_")
ReplaceHyphens(name) ==
    [i \in 1..Len(name) |-> IF name[i] = "-" THEN "_" ELSE name[i]]

\* the JSON values the model's flag texts decode to
JsonValues ==
    { JObj(<<>>), JObj(<< <<"key", "value">> >>),
      JArr(<<>>), JArr(<< <<"output_a">>, <<"output_b">> >>) }

\* json.loads: the value whose JSON text this is, or a JSONDecodeError
JsonLoads(text) ==
    IF \E v \in JsonValues : JsonDumps(v) = text
    THEN [ok |-> TRUE, value |-> CHOOSE v \in JsonValues : JsonDumps(v) = text]
    ELSE [ok |-> FALSE, value |-> JObj(<<>>)]

\* truthiness of an optional flag text: given and not the empty string
TruthyText(o) == ~IsNone(o) /\ Len(o[1]) > 0

\* "json.loads(arg) if arg else None"
ParseJsonArg(o) ==
    IF TruthyText(o)
    THEN LET r == JsonLoads(o[1]) IN
         [ok |-> r.ok, value |-> IF r.ok THEN Some(r.value) ELSE None]
    ELSE [ok |-> TRUE, value |-> None]

\* how an external call can end: it returns, the framework is there and
\* fails, or the framework is not installed
Outcomes == {"ok", "fails", "unavailable"}

\* the exception subprocess.run(..., check=True) raises, "none" when it returns
SubprocessError(outcome) ==
    CASE outcome = "fails" -> "CalledProcessError"
      [] outcome = "unavailable" -> "FileNotFoundError"
      [] OTHER -> "none"

\* the exception the in-process strategy propagates, "none" when it returns
ApiError(outcome) ==
    CASE outcome = "unavailable" -> "ImportError"
      [] outcome = "fails" -> "RuntimeError"
      [] OTHER -> "none"

SubprocessCall(argv) == [kind |-> "subprocess", argv |-> argv]

\* one in-process strategy call: FlowerPowerProject.load and the method on it
ApiCall(argv) == [kind |-> "api", argv |-> argv]

\* the except clauses around each main's dispatch
Caught(tool, exc) ==
    CASE tool = "init" -> FALSE
      [] tool = "create" -> exc \in {"FileExistsError", "CalledProcessError"}
      [] tool = "list" -> TRUE
      [] tool = "run" -> exc # "JSONDecodeError"

\* what a handler prints before sys.exit(1)
HandlerMessage(tool, exc, detail) ==
    CASE tool = "create" /\ exc = "FileExistsError" ->
             <<"Error: ">> \o detail
             \o <<"Use --overwrite to replace existing pipeline">>
      [] tool = "create" -> <<"Error creating pipeline: ">> \o detail
      [] tool = "list" /\ exc = "CalledProcessError" ->
             <<"Error listing pipelines: ">> \o detail
      [] tool = "run" /\ exc = "CalledProcessError" ->
             <<"Error running pipeline: ">> \o detail
      [] OTHER -> <<"Error: ">> \o detail

\* what the interpreter prints for an exception no handler caught
Traceback(exc, detail) ==
    <<"Traceback (most recent call last):", exc, ": ">> \o detail

\* str(e) of the modelled exceptions
Detail(exc) ==
    CASE exc = "CalledProcessError" ->
             <<"Command returned non-zero exit status">>
      [] exc = "FileNotFoundError" ->
             <<"[Errno 2] No such file or directory: 'flowerpower'">>
      [] exc = "JSONDecodeError" -> <<"Expecting value: line 1 column 1 (char 0)">>
      [] exc = "ImportError" -> <<"No module named 'flowerpower'">>
      [] OTHER -> <<"error raised by the framework">>

\* the process outcome of a main: exit status 0 when nothing was raised,
\* sys.exit(1) after the handler's print when a handler caught the exception,
\* and the interpreter's traceback and exit status 1 when none did
Ended(p, exc, detail) ==
    IF exc = "none"
    THEN [p EXCEPT !.exc = "none", !.report = "none", !.exit = 0]
    ELSE IF Caught(p.tool, exc)
    THEN [p EXCEPT !.exc = exc, !.report = "diagnostic",
                   !.message = HandlerMessage(p.tool, exc, detail), !.exit = 1]
    ELSE [p EXCEPT !.exc = exc, !.report = "traceback",
                   !.message = Traceback(exc, detail), !.exit = 1]

\* the extras list main builds from --with-all, --with-io, --with-ui
Extras(with_io, with_ui, with_all) ==
    IF with_all THEN <<"all">>
    ELSE (IF with_io THEN <<"io">> ELSE <<>>) \o (IF with_ui THEN <<"ui">> ELSE <<>>)

\* "flowerpower" or f"flowerpower[{','.join(extras)}]"
Package(extras) ==
    IF Len(extras) = 0 THEN <<"flowerpower">>
    ELSE IF Len(extras) = 1 THEN <<"flowerpower", "[", extras[1], "]">>
    ELSE <<"flowerpower", "[", extras[1], ",", extras[2], "]">>

\* install_flowerpower: one pip subprocess
InstallFlowerpower(extras) ==
    SubprocessCall(<< <<"python">>, <<"-m">>, <<"pip">>, <<"install">>,
                      Package(extras) >>)

\* an install step that runs once when the package is missing and once more
\* when extras were asked for
InstallStepTwice(installed, extras) ==
    (IF ~installed THEN <<InstallFlowerpower(extras)>> ELSE <<>>)
    \o (IF Len(extras) > 0 THEN <<InstallFlowerpower(extras)>> ELSE <<>>)

\* main's "Install if needed": the pip calls it makes
InstallStep(installed, extras) ==
    IF ~installed THEN <<InstallFlowerpower(extras)>>
    ELSE IF Len(extras) > 0 THEN <<InstallFlowerpower(extras)>>
    ELSE <<>>

\* init_project with use_cli = True, as main calls it
InitProject(name, path) ==
    SubprocessCall(<< <<"flowerpower">>, <<"init">>, <<"--name">>, name >>
                   \o IF TruthyPath(path)
                      THEN << <<"--base-dir">>, <<path[1]>> >> ELSE <<>>)

MainInit ==
    \E name \in {<<"a", "-", "b">>}, path \in {None, Some("proj")},
       with_io \in BOOLEAN, with_ui \in BOOLEAN, with_all \in BOOLEAN,
       installed \in BOOLEAN,
       pip \in Outcomes, init \in Outcomes :
        LET extras  == Extras(with_io, with_ui, with_all)
            install == InstallStep(installed, extras)
            p0 == [NoProc EXCEPT !.tool = "init", !.argName = name,
                                 !.name = name]
        IN
        /\ IF Len(install) > 0 /\ pip # "ok"
           THEN proc' = Ended([p0 EXCEPT !.calls = install],
                              SubprocessError(pip), Detail(SubprocessError(pip)))
           ELSE proc' = Ended([p0 EXCEPT !.calls = install \o <<InitProject(name, path)>>,
                                         !.dispatched = TRUE],
                              SubprocessError(init), Detail(SubprocessError(init)))
        /\ result' = NoResult
        /\ req' = NoReq /\ cmd' = None /\ kwargs' = None
        /\ UNCHANGED fsVars

\* the pipeline names given on the command line of create and run
FrontNames == { <<"a">>, <<"a", "-", "b">> }

\* main's "Validate name" block of create_pipeline.py
NormalizeName(name) == IF HasHyphen(name) THEN ReplaceHyphens(name) ELSE name

\* create_pipeline with use_cli = True, as main calls it
CreatePipeline(name, overwrite) ==
    SubprocessCall(<< <<"flowerpower">>, <<"pipeline">>, <<"new">>, name >>
                   \o IF overwrite THEN << <<"--overwrite">> >> ELSE <<>>)

MainCreate ==
    \E argName \in FrontNames, overwrite \in BOOLEAN, template_only \in BOOLEAN,
       now \in 1..MaxClock, outcome \in Outcomes :
        LET name == NormalizeName(argName)
            p0 == [NoProc EXCEPT !.tool = "create", !.argName = argName,
                                 !.name = name, !.dispatched = TRUE,
                                 !.warned = HasHyphen(argName)]
        IN
        /\ IF template_only
           THEN /\ CreatePipelineFromTemplate(name, overwrite, now)
                /\ proc' = IF result'.status = "FileExistsError"
                           THEN Ended(p0, "FileExistsError", result'.message)
                           ELSE Ended(p0, "none", <<>>)
           ELSE /\ proc' = Ended([p0 EXCEPT !.calls =
                                      <<CreatePipeline(name, overwrite)>>],
                                 SubprocessError(outcome),
                                 Detail(SubprocessError(outcome)))
                /\ result' = NoResult
                /\ UNCHANGED fsVars
        /\ req' = NoReq /\ cmd' = None /\ kwargs' = None

\* list_pipelines_cli: the argv of its subprocess
ListPipelinesCli(base_dir, output_format) ==
    SubprocessCall(<< <<"flowerpower">>, <<"pipeline">>, <<"show-pipelines">> >>
                   \o (IF TruthyPath(base_dir)
                       THEN << <<"--base-dir">>, <<base_dir[1]>> >> ELSE <<>>)
                   \o << <<"--format">>, <<output_format>> >>)

\* list_pipelines_api: load the project and ask its pipeline manager
ListPipelinesApi(base_dir) ==
    ApiCall(<< <<"FlowerPowerProject.load">>,
               <<IF TruthyPath(base_dir) THEN base_dir[1] ELSE ".">>,
               <<"pipeline_manager.list">> >>)

MainList ==
    \E path \in {None, Some("proj")}, format \in {"table", "json"},
       use_api \in BOOLEAN, scan \in BOOLEAN, outcome \in Outcomes :
        LET p0 == [NoProc EXCEPT !.tool = "list", !.dispatched = TRUE] IN
        /\ IF scan
           THEN /\ result' = [NoResult EXCEPT !.op = "list", !.status = "ok",
                                  !.listing = ListPipelinesFilesystem]
                /\ proc' = Ended(p0, "none", <<>>)
           ELSE IF use_api
           THEN /\ result' = NoResult
                /\ proc' = Ended([p0 EXCEPT !.calls = <<ListPipelinesApi(path)>>],
                                 ApiError(outcome), Detail(ApiError(outcome)))
           ELSE /\ result' = NoResult
                /\ proc' = Ended([p0 EXCEPT !.calls =
                                      <<ListPipelinesCli(path, format)>>],
                                 SubprocessError(outcome),
                                 Detail(SubprocessError(outcome)))
        /\ req' = NoReq /\ cmd' = None /\ kwargs' = None
        /\ UNCHANGED fsVars

\* the texts given to --inputs and --final-vars
InputsArgs ==
    { None, Some(<<"{", "bad">>),
      Some(JsonDumps(JObj(<<>>))), Some(JsonDumps(JObj(<< <<"key", "value">> >>))) }

FinalVarsArgs ==
    { None, Some(<<"[", "bad">>),
      Some(JsonDumps(JArr(<< <<"output_a">>, <<"output_b">> >>))) }

\* the in-process strategy as one call
RunApiCall(call) ==
    ApiCall(<< <<"FlowerPowerProject.load">>, <<call.load>>,
               <<"project.run">>, call.name >>)

MainRun ==
    \E argName \in FrontNames,
       inputsArg \in InputsArgs, finalVarsArg \in FinalVarsArgs,
       run_config \in {None, Some("rc.yml")},
       use_api \in BOOLEAN, outcome \in Outcomes :
        LET p0 == [NoProc EXCEPT !.tool = "run", !.argName = argName,
                                 !.inputsArg = inputsArg,
                                 !.finalVarsArg = finalVarsArg,
                                 !.name = argName]
            inputs == ParseJsonArg(inputsArg)
            final_vars == ParseJsonArg(finalVarsArg)
            r == [NoReq EXCEPT !.name = argName,
                               !.inputs = inputs.value,
                               !.final_vars = final_vars.value,
                               !.run_config = run_config]
        IN
        /\ IF ~inputs.ok \/ ~final_vars.ok
           THEN /\ proc' = Ended(p0, "JSONDecodeError", Detail("JSONDecodeError"))
                /\ req' = NoReq /\ cmd' = None /\ kwargs' = None
           ELSE IF use_api
           THEN /\ req' = r /\ cmd' = None
                /\ kwargs' = Some(RunPipelineApi(r))
                /\ proc' = Ended([p0 EXCEPT !.dispatched = TRUE,
                                      !.calls = <<RunApiCall(RunPipelineApi(r))>>],
                                 ApiError(outcome), Detail(ApiError(outcome)))
           ELSE /\ req' = r /\ kwargs' = None
                /\ cmd' = Some(RunPipelineCli(r))
                /\ proc' = Ended([p0 EXCEPT !.dispatched = TRUE,
                                      !.calls = <<SubprocessCall(RunPipelineCli(r))>>],
                                 SubprocessError(outcome),
                                 Detail(SubprocessError(outcome)))
        /\ result' = NoResult
        /\ UNCHANGED fsVars

InitFront == InitEmptyRoot /\ InitRest

NextFront == MainInit \/ MainCreate \/ MainList \/ MainRun

SpecFront == InitFront /\ [][NextFront]_vars

-----------------------------------------------------------------------------
(* Properties of the front ends *)

Invoked == proc.tool # "none"

\* C7: a front end exits with 0 when its operation succeeded; when the
\* operation failed it prints a one-line diagnostic and exits with 1.
C7_ExitCodeAndDiagnostic ==
    Invoked
    => IF proc.exc = "none"
       THEN proc.exit = 0 /\ proc.report = "none"
       ELSE proc.exit = 1 /\ proc.report = "diagnostic"

\* the texts that are valid JSON among those the model gives to the flags
ValidJsonTexts ==
    { <<"{", "}">>,
      <<"{", "\"", "key", "\"", ": ", "\"", "value", "\"", "}">>,
      <<"[", "]">>,
      <<"[", "\"", "output_a", "\"", ", ", "\"", "output_b", "\"", "]">> }

\* a flag was given a text that is not valid JSON
Malformed(o) == ~IsNone(o) /\ o[1] \notin ValidJsonTexts

\* the report mentions the flag
NamesFlag(message, flags) ==
    \E i \in 1..Len(message) : message[i] \in flags

\* C8: when the text given to --inputs or --final-vars is not valid JSON,
\* the run front end fails, reports the name of the offending flag, exits
\* with a non-zero code and dispatches nothing.
C8_MalformedJsonReported ==
    (proc.tool = "run" /\ (Malformed(proc.inputsArg) \/ Malformed(proc.finalVarsArg)))
    => /\ proc.exc # "none"
       /\ proc.exit # 0
       /\ ~proc.dispatched /\ Len(proc.calls) = 0
       /\ \/ Malformed(proc.inputsArg) /\ NamesFlag(proc.message, {"inputs", "--inputs", "-i"})
          \/ Malformed(proc.finalVarsArg) /\ NamesFlag(proc.message,
                                                        {"final_vars", "--final-vars", "-o"})

NoHyphen(text) == \A i \in 1..Len(text) : text[i] # "-"

\* C9: in the create and run front ends the name handed to a dispatch
\* strategy holds no hyphen, and a hyphen in the given name brings a warning.
C9_NameNormalizedBeforeDispatch ==
    (proc.tool \in {"create", "run"} /\ proc.dispatched)
    => /\ NoHyphen(proc.name)
       /\ \A k \in 1..Len(proc.calls) : NoHyphen(proc.calls[k].argv[4])
       /\ ~NoHyphen(proc.argName) => proc.warned

\* C10 as stated: an invocation of a front end makes at most one blocking
\* external call.
C10_Original == Invoked => Len(proc.calls) <= 1

IsPipInstall(call) ==
    /\ call.kind = "subprocess"
    /\ SubSeq(call.argv, 2, 4) = << <<"-m">>, <<"pip">>, <<"install">> >>

IsFlowerpowerInit(call) ==
    /\ call.kind = "subprocess"
    /\ SubSeq(call.argv, 1, 2) = << <<"flowerpower">>, <<"init">> >>

\* C10 amended: an invocation of the create, list or run front end makes at
\* most one blocking external call; an invocation of the init front end
\* makes at most two, both subprocesses: a pip install, then, only when that
\* install returned normally, the flowerpower init call.
C10_CallsPerInvocation ==
    Invoked
    => IF proc.tool = "init"
       THEN /\ Len(proc.calls) \in {1, 2}
            /\ Len(proc.calls) = 2
                   => IsPipInstall(proc.calls[1]) /\ IsFlowerpowerInit(proc.calls[2])
            /\ Len(proc.calls) = 1
                   => IsPipInstall(proc.calls[1]) \/ IsFlowerpowerInit(proc.calls[1])
            /\ (Len(proc.calls) = 1 /\ IsPipInstall(proc.calls[1]))
                   => proc.exc # "none"
       ELSE Len(proc.calls) <= 1

\* C10 witness: an init invocation that installed the framework, then
\* initialised the project, and exited with 0
C10_Witness ==
    /\ proc.tool = "init"
    /\ Len(proc.calls) = 2
    /\ proc.exit = 0


-----------------------------------------------------------------------------
(* Properties of a scaffolding call that fails, and of a refused one *)

\* the last call wrote the module and raised at the config write
FailedAtConfig(r) ==
    IsCreate(r) /\ r.status = "OSError" /\ r.stage \in ConfigStages

SameNameRerun(r, r2) == IsCreate(r2) /\ r2.name = r.name

HasEntry(listing, n, has) ==
    \E i \in 1..Len(listing) :
        listing[i].name = n /\ listing[i].has_config = has

\* the two reruns the claim speaks of, made in the state the failed call left
RerunsAfterFailure ==
    /\ ( FailedAtConfig(result) /\ SameNameRerun(result, result')
         /\ ~result'.overwrite )
       => /\ Conflict(result')
          /\ UNCHANGED <<dirs, pipelinesFiles, configFiles>>
    /\ ( FailedAtConfig(result) /\ SameNameRerun(result, result')
         /\ result'.overwrite /\ result'.status = "ok" )
       => /\ Exists(pipelinesFiles', ModuleFile(result.name))
          /\ Exists(configFiles', ConfigFile(result.name))
          /\ configFiles'[ConfigFile(result.name)] = RenderConfig(result.name)

\* C11 as stated: a call that fails at the config write leaves the module
\* present and the config absent, a listing made then shows the pipeline with
\* has_config = false, a rerun with overwrite = false is refused and changes
\* nothing, a rerun with overwrite = true that returns leaves both files.
C11_Original ==
    [][ /\ FailedAtConfig(result')
           => /\ Exists(pipelinesFiles', ModuleFile(result'.name))
              /\ ~Exists(configFiles', ConfigFile(result'.name))
        /\ (FailedAtConfig(result) /\ result'.op = "list")
           => HasEntry(result'.listing, result.name, FALSE)
        /\ RerunsAfterFailure
      ]_vars

\* C11 amended: a call that fails at the config write undoes nothing: the
\* module file holds the rendered template and every other module file is as
\* before; the config file is absent exactly when it was absent before the
\* call and the failed write did not create it, and a write that failed before
\* creating it leaves the config directory as it was.  A listing made then
\* shows the pipeline, unless its name begins with "_", with has_config
\* telling whether the config file exists.  A rerun with overwrite = false is
\* refused and changes nothing; a rerun with overwrite = true that returns
\* leaves both files present, the config file holding the rendered template.
C11_PartialScaffoldAndRecovery ==
    [][ /\ FailedAtConfig(result')
           => LET n == result'.name IN
              /\ Exists(pipelinesFiles', ModuleFile(n))
              /\ pipelinesFiles'[ModuleFile(n)]
                     = RenderModule(n, Strftime(result'.now))
              /\ \A f \in DOMAIN pipelinesFiles :
                     f # ModuleFile(n) =>
                         /\ Exists(pipelinesFiles', f)
                         /\ pipelinesFiles'[f] = pipelinesFiles[f]
              /\ ~Exists(configFiles', ConfigFile(n))
                     <=> (~result'.prior.config /\ result'.stage = "config_open")
              /\ result'.stage = "config_open" => configFiles' = configFiles
        /\ (FailedAtConfig(result) /\ result'.op = "list")
           => IF Listable(result.name)
              THEN HasEntry(result'.listing, result.name,
                            Exists(configFiles, ConfigFile(result.name)))
              ELSE result.name \notin EntryNames(result'.listing)
        /\ RerunsAfterFailure
      ]_vars

\* C11 witness: a rerun with overwrite = false was refused for a pipeline
\* that no call returned for, whose module file holds the rendered template
\* and whose config file is absent
C11_Witness ==
    /\ Conflict(result)
    /\ result.message = ModuleConflictMessage(result.name)
    /\ result.name \notin scaffolded
    /\ Listable(result.name)
    /\ \E now \in 1..MaxClock :
           pipelinesFiles[ModuleFile(result.name)]
               = RenderModule(result.name, Strftime(now))
    /\ ~Exists(configFiles, ConfigFile(result.name))

\* C12: a call that raises FileExistsError leaves the project root as it was:
\* no directory is created, and no module file and no config file is created,
\* removed or modified.
C12_ConflictLeavesRootUntouched ==
    [][ Conflict(result')
        => /\ dirs' = dirs
           /\ pipelinesFiles' = pipelinesFiles
           /\ configFiles' = configFiles
      ]_vars

\* C12 witness: a call was refused in a root that has no config directory and
\* whose module file is still the hand-written one
C12_Witness ==
    /\ Conflict(result)
    /\ "conf/pipelines" \notin dirs
    /\ pipelinesFiles[ModuleFile(result.name)] = OtherContent
    /\ configFiles = <<>>

=============================================================================
